---------------------------- MODULE Spec2Model ----------------------------
(***************************************************************************)
(* State-machine model of the ddafa reconstruction program.                *)
(*                                                                         *)
(*   main (src/src/main.cpp) creates the task queue and the shared sink,   *)
(*   launches one pipeline per device and waits for the pipeline futures.  *)
(*   Each pipeline is the chain                                            *)
(*       source -> preloader -> Filter -> reconstruction -> sink           *)
(*   The preloader is src/unnamed/part_001, the Filter is the CUDAFilter   *)
(*   part of src/src/weighting_stage.h, the sink loop is                   *)
(*   src/src/pipeline/SinkStage.h.  The source stage, the reconstruction   *)
(*   stage, the pipeline runtime and the pool allocator have no code in    *)
(*   src/ and are modelled from the specification's description.           *)
(*                                                                         *)
(*   Specifications:                                                       *)
(*     Spec        the whole program, every interleaving of the workers    *)
(*     FairSpec    Spec plus the fairness a thread scheduler gives         *)
(*     PipeSpec    Spec on a machine with one device                       *)
(*     FilterSpec  one Filter, from its constructor over bounded detector  *)
(*                 geometries to the projections submitted to it           *)
(***************************************************************************)
EXTENDS Integers, Sequences, FiniteSets, TLC

(***************************** bounds ***************************************)
\* devices the CUDA runtime may report (cudaGetDeviceCount / get_device_count)
MaxDevices == 2
\* tasks produced by make_tasks
NumTasks == 3
\* projections streamed for one task
ProjPerTask == 1
\* pool limit handed to the preloader; main passes parallel_projections = 5,
\* the model scales it down so that the pool limit is reached
PoolLimit == 2
\* largest detector extent (columns, rows) explored by FilterSpec
MaxDim == 9
\* projections submitted to the one Filter of FilterSpec
MaxSubmit == 2
\* largest compute capability major and minor explored by MasterSpec
MaxMajor == 6
MaxMinor == 8

(***************************** program constants ***************************)
\* main.cpp: constexpr auto input_limit = std::size_t{1}
input_limit == 1
\* EXIT_FAILURE as used by std::exit in main's catch blocks
EXIT_FAILURE == 1
\* cudaSuccess, the cudaError_t of a call that worked
cudaSuccess == 0
\* cudaError_t values that cudaSetDevice can return besides cudaSuccess:
\* cudaErrorInvalidDevice and cudaErrorDeviceAlreadyInUse
CudaErrorCodes == {10, 54}

VARIABLES
    devices,      \* main: result of get_device_count()
    mainpc,       \* main: "launch" | "wait" | "unwind" | "exited"
    fut,          \* main: index of the future main is waiting for
    exitcode,     \* main: process exit code, -1 while running
    task_queue,   \* the shared task queue (sequence of task ids)
    taken,        \* history: sequence of <<device, task>> pops
    srcpc,        \* source stage per device: [pc, task, idx]
    q1,           \* edge source -> preloader, per device
    prepc,        \* preloader_stage::run per device: [pc, p, err, host, stream]
    pool,         \* preloader pool per device: [limit, out]
    q2,           \* edge preloader -> Filter, per device
    fpc,          \* Filter stage driver per device: "off"|"run"|"finish"|"done"
    threads,      \* Filter::processor_threads_ per device: seq of
                  \*   [img, done, threw, plans, kernel]
    results,      \* Filter::results_ per device
    recpc,        \* reconstruction stage per device: [pc, seen]
    sinkq,        \* SinkStage::input_queue_ (one shared sink)
    sinkpc,       \* SinkStage::run as started by each pipeline
    written,      \* slabs saved by the sink
    hist,         \* history per device: what entered and left each stage
    pipe,         \* launch_pipeline per device: "off" | "construct" | "run" |
                  \*   "returned" | the exception its future holds
    caught,       \* main: the exception that left the try block, or "none"
    geo,          \* detector geometry given to Filter::Filter
    filter_length,\* Filter::filter_length_, 0 before construction
    fctor,        \* Filter::Filter: "idle" | "creating" | "returned"
    fcreate,      \* filter_creation_threads per device: "off" | "run" | "done"
    j_host_buffer,\* per device: [size, writes], the writes of filterProcessor
    rs_,          \* Filter::rs_ per device: [set, r]
    conv,         \* a projection taken through convertProjection and
                  \*   convertFiltered: [pc, img, converted]
    kf,           \* a transformed filter and projection taken through
                  \*   createK and applyFilter: [pc, tau, filter0, filter,
                  \*   data0, data]
    master        \* a CUDAMaster: [pc, device, major, minor,
                  \*   number_of_workers, what, returned]

pipevars == <<devices, mainpc, fut, exitcode, task_queue, taken, srcpc, q1,
              prepc, pool, q2, fpc, threads, results, recpc, sinkq, sinkpc,
              written, hist, pipe, caught>>
filtervars == <<geo, filter_length, fctor, fcreate, j_host_buffer, rs_, conv,
                kf, master>>
vars == <<pipevars, filtervars>>

Devs == 0 .. (MaxDevices - 1)
Tasks == 1 .. NumTasks

(***************************** items ***************************************)
\* projection<...>{} : the default-constructed projection is the sentinel
sentinel == [valid |-> FALSE, task |-> 0, idx |-> 0, device |-> -1,
             width |-> 0, height |-> 0, phi |-> 0]

\* a host projection emitted by the source for task t, index i: it has the
\* size of the detector and the angle of its position in the scan
HostProjection(t, i) ==
    [valid |-> TRUE, task |-> t, idx |-> i, device |-> -1,
     width |-> geo.det_pixels_row, height |-> geo.det_pixels_column,
     phi |-> (t - 1) * ProjPerTask + i]

\* faulty variant: the projection is forwarded with a default angle
DeviceProjection_without_phi(p, dev) ==
    [valid |-> TRUE, task |-> p.task, idx |-> p.idx, device |-> dev,
     width |-> p.width, height |-> p.height, phi |-> 0]

\* output_type{std::move(dev_p), p.width, p.height, p.idx, p.phi, true, stream}
DeviceProjection(p, dev) ==
    [valid |-> TRUE, task |-> p.task, idx |-> p.idx, device |-> dev,
     width |-> p.width, height |-> p.height, phi |-> p.phi]

\* a finished slab of task t reconstructed on device d
Slab(t, d) == [valid |-> TRUE, task |-> t, idx |-> 0, device |-> d,
               width |-> 0, height |-> 0, phi |-> 0]

Id(p) == <<p.task, p.idx>>

RECURSIVE Ids(_)
Ids(s) == IF s = <<>> THEN <<>> ELSE <<Id(Head(s))>> \o Ids(Tail(s))

RECURSIVE ValidOnly(_)
ValidOnly(s) ==
    IF s = <<>> THEN <<>>
    ELSE IF Head(s).valid THEN <<Head(s)>> \o ValidOnly(Tail(s))
         ELSE ValidOnly(Tail(s))

SentinelCount(s) == Cardinality({i \in 1 .. Len(s) : ~s[i].valid})

\* no item follows a sentinel
SentinelLast(s) == \A i \in 1 .. Len(s) : ~s[i].valid => i = Len(s)

NoHist == [pre_in |-> <<>>, pre_out |-> <<>>, pre_streams |-> <<>>,
           f_in |-> <<>>, f_out |-> <<>>]

\* a projection's stream: the asynchronous operations enqueued on it and not
\* yet completed, those completed, and how often the host waited for it
no_stream == [created |-> FALSE, pending |-> <<>>, completed |-> <<>>, syncs |-> 0]

(***************************** pipeline runtime ****************************)
\* an edge between two stages holds at most input_limit items; a push on a
\* full edge blocks
Full(q) == Len(q) >= input_limit

\* make_tasks: the tasks are created up front
make_tasks == [i \in 1 .. NumTasks |-> i]

\* faulty variant: the queue is filled from the task list twice
task_queue_filled_twice(tasks) == tasks \o tasks

\* ddrf::pipeline::task_queue<ddafa::task>(tasks)
task_queue_of(tasks) == tasks

\* faulty variant: the pool is built one buffer larger than the limit given
preloader_stage_off_by_one(pool_limit) ==
    [limit |-> pool_limit + 1, out |-> 0, released |-> FALSE, err |-> cudaSuccess]

\* preloader_stage::preloader_stage(pool_limit, device): limit_{pool_limit},
\* pool_{pool_limit}; "out" counts the buffers handed out and not yet dropped
\* "released" and "err" record what the destructor did
preloader_stage(pool_limit) ==
    [limit |-> pool_limit, out |-> 0, released |-> FALSE, err |-> cudaSuccess]

\* allocate_smart can hand out a buffer while fewer than limit are out;
\* otherwise the caller blocks until a buffer is returned
CanAllocate(pl) == pl.out < pl.limit
allocate_smart(pl) == [pl EXCEPT !.out = @ + 1]
\* dropping a smart_pointer returns its buffer to the pool
drop(pl) == [pl EXCEPT !.out = @ - 1]

\* faulty variant: the pool is released although the device was not set
destroy_releases_without_device(pl, err) == [pl EXCEPT !.released = TRUE, !.err = err]

\* preloader_stage::~preloader_stage lines 49-56, err being the result of
\* cudaSetDevice(device_): on an error the destructor logs it and calls
\* std::exit(err) before pool_.release(); with the device set,
\* pool_.release() frees the memory of the pool
destroy(pl, err) ==
    IF err # cudaSuccess THEN [pl EXCEPT !.err = err]
    ELSE [pl EXCEPT !.released = TRUE]

\* every worker of pipeline d has returned or thrown
PipelineComplete(d) ==
    /\ srcpc[d].pc = "done"
    /\ prepc[d].pc \in {"done", "failed"}
    /\ fpc[d] = "done"
    /\ recpc[d].pc = "done"
    /\ sinkpc[d] = "done"

\* a stage of pipeline d raised stage_runtime_error
PipelineFailed(d) == prepc[d].pc = "failed"

(***************************** Filter kernels *****************************)
Pow2(k) == 2 ^ k

\* std::ceil(std::log2(float(n))) for n >= 1: the least k with 2^k >= n
\* (float(n) is exact for every n below 2^24)
RECURSIVE CeilLog2From(_, _)
CeilLog2From(n, k) == IF Pow2(k) >= n THEN k ELSE CeilLog2From(n, k + 1)
CeilLog2(n) == CeilLog2From(n, 0)

\* Filter::Filter lines 337-339:
\*   filter_length_ = 2 * pow(2, ceil(log2(float(geo.det_pixels_column))))
\* det_pixels_column is the number of pixels in a detector column, that is
\* the number of detector rows n_v
Filter(g) == 2 * Pow2(CeilLog2(g.det_pixels_column))

\* a detector with n_h = det_pixels_row columns and n_v = det_pixels_column
\* rows, both at least 1
Geometries == [det_pixels_row : 1 .. MaxDim, det_pixels_column : 1 .. MaxDim]

\* the % of C on signed integers: the remainder has the sign of the dividend
CRem(a, b) == IF a >= 0 THEN a % b ELSE -((-a) % b)

\* Filter::filterProcessor lines 386-387:
\*   j = -((filter_length_signed - 2) / 2)
j_first(L) == -((L - 2) \div 2)

\* lines 388-389: for(k = 0u; k <= filter_length_; ++k, ++j) j_host_buffer[k] = j
\* the writes in the order of the loop, each with its index k and its value j
j_loop(L) == [n \in 1 .. (L + 1) |-> [k |-> n - 1, j |-> j_first(L) + (n - 1)]]

\* lines 391-392: j_dev_buffer = j_host_buffer copies the filter_length_
\* elements of the host buffer
j_dev_buffer(writes, L) == [x \in 0 .. (L - 1) |-> writes[x + 1].j]

\* faulty variant: a j is taken as odd only when j % 2 is 1
createFilter_odd_is_one(j, size) ==
    [x \in 0 .. (size - 1) |->
        IF j[x] = 0 THEN [num |-> 1, den |-> 8, pi2 |-> 0]
        ELSE IF CRem(j[x], 2) = 1 THEN [num |-> -1, den |-> 2 * j[x] * j[x], pi2 |-> 1]
        ELSE [num |-> 0, den |-> 1, pi2 |-> 0]]

\* createFilter lines 251-263, thread x of the launch over size threads.
\* r[x] is kept as the fraction num / (den * pi^(2*pi2) * tau^2):
\*   (1/8) * (1/tau^2), 0, or -1 / (2 * j^2 * pi^2 * tau^2)
createFilter(j, size) ==
    [x \in 0 .. (size - 1) |->
        IF j[x] = 0 THEN [num |-> 1, den |-> 8, pi2 |-> 0]
        ELSE IF CRem(j[x], 2) = 0 THEN [num |-> 0, den |-> 1, pi2 |-> 0]
        ELSE [num |-> -1, den |-> 2 * j[x] * j[x], pi2 |-> 1]]

\* an rs_ entry after rs_.resize and before its kernel is stored
no_kernel == [set |-> FALSE, r |-> <<>>]

\* Filter::filterProcessor lines 382-398: the kernel stored in rs_[device]
filterProcessor(L) == [set |-> TRUE, r |-> createFilter(j_dev_buffer(j_loop(L), L), L)]

\* a pixel value as the fraction num / den
pixel(v) == [num |-> v, den |-> 1]

\* float division of a pixel by the filter length
divide(v, L) == [num |-> v.num, den |-> v.den * L]

\* a projection of the detector: width det_pixels_row, height
\* det_pixels_column, every pixel with a value of its own, none of them 0
Projection(g) ==
    [y \in 0 .. (g.det_pixels_column - 1) |->
        [x \in 0 .. (g.det_pixels_row - 1) |-> pixel(1 + x + y * g.det_pixels_row)]]

\* convertProjection lines 271-283, over the threads x < L, y < height of
\* the launch (threads beyond filter_length fail the kernel's test)
convertProjection(input, width, height, L) ==
    [y \in 0 .. (height - 1) |->
        [x \in 0 .. (L - 1) |-> IF x < width THEN input[y][x] ELSE pixel(0)]]

\* convertFiltered lines 291-298, over the threads x < gridx, y < height of
\* the launch: a thread with x < width writes input_row[x] / filter_length.
\* A row of input has filter_length elements; what a thread reads beyond
\* them is not defined by the program and is given as beyond.  A pixel no
\* thread reaches keeps its value.
convertFiltered(output, input, width, height, L, gridx, beyond) ==
    [y \in 0 .. (height - 1) |->
        [x \in 0 .. (width - 1) |->
            IF x < gridx
            THEN divide(IF x < L THEN input[y][x] ELSE beyond, L)
            ELSE output[y][x]]]

\* a float component of a cufftComplex as the value c * sqrt(s), c an
\* integer and s a natural number; an integer a is a * sqrt(1)
surd(a) == [c |-> a, s |-> 1]

\* a cufftComplex with the components x and y
complex(a, b) == [x |-> surd(a), y |-> surd(b)]

\* powf(v, 2.f)
square(v) == v.c * v.c * v.s

\* the float product a * k
times(a, k) == [c |-> a.c * k.c, s |-> a.s * k.s]

\* faulty variant: only the real component gets the magnitude
createK_real_only(data, n, tau, gridx) ==
    [x \in DOMAIN data |->
        IF x < gridx /\ x < n
        THEN [x |-> [c |-> tau, s |-> square(data[x].x) + square(data[x].y)],
              y |-> data[x].y]
        ELSE data[x]]

\* createK lines 304-310, over the threads x < gridx of the launch:
\*   result = tau * fabsf(sqrtf(powf(data[x].x, 2.f) + powf(data[x].y, 2.f)))
\*   data[x].x = result; data[x].y = result
createK(data, n, tau, gridx) ==
    [x \in DOMAIN data |->
        IF x < gridx /\ x < n
        THEN LET result == [c |-> tau, s |-> square(data[x].x) + square(data[x].y)]
             IN  [x |-> result, y |-> result]
        ELSE data[x]]

\* applyFilter lines 317-332, over the threads x < gridx, y < height of the
\* launch: row[x].x = a1 * k1, row[x].y = b1 * k2
applyFilter(data, filter, n, height, gridx) ==
    [y \in DOMAIN data |->
        [x \in DOMAIN data[y] |->
            IF x < gridx /\ x < n /\ y < height
            THEN [x |-> times(data[y][x].x, filter[x].x),
                  y |-> times(data[y][x].y, filter[x].y)]
            ELSE data[y][x]]]

\* no filter has been combined with a projection
no_k == [pc |-> "off", tau |-> 0, filter0 |-> <<>>, filter |-> <<>>,
         data0 |-> <<>>, data |-> <<>>]

\* the what() of an exception: its text and the numbers it names
no_what == [text |-> "", device |-> -1, major |-> -1, minor |-> -1]

\* no CUDAMaster is under construction
no_master == [pc |-> "off", device |-> 0, major |-> 0, minor |-> 0,
              number_of_workers |-> 0, what |-> no_what, returned |-> 0]

\* CUDAMaster::CUDAMaster line 95: assertCuda(cudaGetDeviceProperties(...))
\* has failed; no object is made
assertCuda(m) ==
    [m EXCEPT !.pc = "threw",
              !.what = [no_what EXCEPT !.text = "cudaGetDeviceProperties"]]

\* lines 127-130, 147-150, 155-159: throw std::runtime_error naming the
\* device and the compute capability
Unsupported(m, shown_major) ==
    [m EXCEPT !.pc = "threw",
              !.what = [text |-> "CUDAMaster: Unsupported Compute Capability",
                        device |-> m.device, major |-> shown_major, minor |-> m.minor]]

\* lines 162-166: the constructor returns with number_of_workers_ = n
Constructed(m, n) == [m EXCEPT !.pc = "constructed", !.number_of_workers = n]

\* faulty variant: an unknown minor of major 3 leaves the initial value
CUDAMaster_keeps_initial(m) ==
    LET m1 == [m EXCEPT !.number_of_workers = 1]
    IN  CASE m.major = 2 -> Constructed(m1, 16)
          [] m.major = 3 ->
                (CASE m.minor = 0 -> Constructed(m1, 16)
                   [] m.minor = 2 -> Constructed(m1, 4)
                   [] m.minor \in {5, 7} -> Constructed(m1, 32)
                   [] OTHER -> Constructed(m1, m1.number_of_workers))
          [] m.major = 5 ->
                (CASE m.minor \in {0, 2} -> Constructed(m1, 32)
                   [] m.minor = 3 -> Constructed(m1, 16)
                   [] OTHER -> Unsupported(m1, 5))
          [] OTHER -> Unsupported(m1, m.major)

\* CUDAMaster::CUDAMaster lines 91-166 for a device whose properties were
\* read: number_of_workers_{1}, then the switch over major and minor
CUDAMaster(m) ==
    LET m1 == [m EXCEPT !.number_of_workers = 1]
    IN  CASE m.major = 2 -> Constructed(m1, 16)
          [] m.major = 3 ->
                (CASE m.minor = 0 -> Constructed(m1, 16)
                   [] m.minor = 2 -> Constructed(m1, 4)
                   [] m.minor \in {5, 7} -> Constructed(m1, 32)
                   [] OTHER -> Unsupported(m1, 3))
          [] m.major = 5 ->
                (CASE m.minor \in {0, 2} -> Constructed(m1, 32)
                   [] m.minor = 3 -> Constructed(m1, 16)
                   [] OTHER -> Unsupported(m1, 5))
          [] OTHER -> Unsupported(m1, m.major)

\* CUDAMaster::workerCount lines 187-190
workerCount(m) == m.number_of_workers

(***************************** initial state *******************************)
PipeInit ==
    /\ devices \in 0 .. MaxDevices
    /\ mainpc = "launch"
    /\ fut = 0
    /\ exitcode = -1
    /\ task_queue = <<>>
    /\ taken = <<>>
    /\ srcpc = [d \in Devs |-> [pc |-> "off", task |-> 0, idx |-> 0]]
    /\ q1 = [d \in Devs |-> <<>>]
    /\ prepc = [d \in Devs |-> [pc |-> "off", p |-> sentinel, err |-> "none",
                                host |-> sentinel, stream |-> no_stream]]
    /\ pool = [d \in Devs |-> preloader_stage(PoolLimit)]
    /\ q2 = [d \in Devs |-> <<>>]
    /\ fpc = [d \in Devs |-> "off"]
    /\ threads = [d \in Devs |-> <<>>]
    /\ results = [d \in Devs |-> <<>>]
    /\ recpc = [d \in Devs |-> [pc |-> "off", seen |-> {}]]
    /\ sinkq = <<>>
    /\ sinkpc = [d \in Devs |-> "off"]
    /\ written = {}
    /\ hist = [d \in Devs |-> NoHist]
    /\ pipe = [d \in Devs |-> "off"]
    /\ caught = "none"

\* no projection has been converted
no_conversion(g) == [pc |-> "off", img |-> Projection(g), converted |-> <<>>]

\* the pipelines run with the Filter constructed for the smallest detector
\* that is wider than high: the state in which Filter::Filter has returned
FilterBuilt ==
    /\ geo = [det_pixels_row |-> 2, det_pixels_column |-> 1]
    /\ filter_length = Filter(geo)
    /\ fctor = "returned"
    /\ fcreate = [d \in Devs |-> IF d < devices THEN "done" ELSE "off"]
    /\ j_host_buffer = [d \in Devs |-> IF d < devices
                                       THEN [size |-> filter_length, writes |-> j_loop(filter_length)]
                                       ELSE [size |-> 0, writes |-> <<>>]]
    /\ rs_ = [d \in Devs |-> IF d < devices THEN filterProcessor(filter_length) ELSE no_kernel]
    /\ conv = no_conversion(geo)
    /\ kf = no_k

Init == PipeInit /\ FilterBuilt /\ master = no_master

(***************************** main ****************************************)
\* the process runs until an uncaught exception or a signal ends it
Alive == mainpc # "aborted"

\* faulty variant: launch_pipeline returns without pipeline.wait()
launch_pipeline_no_wait(d) == TRUE

\* every worker of pipeline d has ended: pipeline.wait() returns or rethrows
launch_pipeline_wait(d) == PipelineComplete(d)

\* the futures main has created are all ready (or none was created): the
\* destructor of a std::async future blocks until its task has ended
FuturesReady ==
    \A d \in Devs : pipe[d] \in {"off", "returned", "stage_construction_error",
                                 "stage_runtime_error"}

\* faulty variant: the handlers log and fall through to return 0
main_catch_returns_zero(e) == 0

\* main.cpp 157-168: both handlers log at fatal and std::exit(EXIT_FAILURE)
main_catch(e) == EXIT_FAILURE

\* launch_pipeline leaves its scope with the given outcome and the
\* preloader_stage of pipeline d is destroyed (part_001 lines 47-57):
\* cudaSetDevice succeeds or returns an error code; on an error std::exit
\* ends the process with that code and launch_pipeline never returns
preloader_stage_dtor(d, outcome) ==
    \E err \in {cudaSuccess} \cup CudaErrorCodes :
        /\ pool' = [pool EXCEPT ![d] = destroy(@, err)]
        /\ IF err = cudaSuccess
           THEN /\ pipe' = [pipe EXCEPT ![d] = outcome]
                /\ UNCHANGED <<mainpc, exitcode>>
           ELSE /\ mainpc' = "aborted"
                /\ exitcode' = err
                /\ UNCHANGED pipe

\* main.cpp 115-141: calculate the geometry, make the tasks and the queue,
\* read the device count, start launch_pipeline for each device with the
\* address of the one queue.  The geometry calculation and the task
\* generation can raise stage_construction_error, which leaves the try block
\* before a queue or a future exists.
MainLaunch ==
    /\ Alive
    /\ mainpc = "launch"
    /\ \/ /\ mainpc' = "wait"
          /\ task_queue' = task_queue_of(make_tasks)
          /\ pipe' = [d \in Devs |-> IF d < devices THEN "construct" ELSE pipe[d]]
          /\ UNCHANGED caught
       \/ /\ mainpc' = "unwind"
          /\ caught' = "stage_construction_error"
          /\ UNCHANGED <<task_queue, pipe>>
    /\ UNCHANGED <<filtervars, devices, fut, exitcode, taken, srcpc, q1, prepc,
                   pool, q2, fpc, threads, results, recpc, sinkq, sinkpc,
                   written, hist>>

\* main.cpp 87-96, launch_pipeline up to pipeline.run: the stages are made
\* and connected and every stage of the pipeline is started, the shared sink
\* included.  A stage constructor can raise stage_construction_error; the
\* stages made so far are destroyed and the future holds the exception.
LaunchPipeline(d) ==
    /\ Alive
    /\ pipe[d] = "construct"
    /\ \/ /\ pipe' = [pipe EXCEPT ![d] = "run"]
          /\ srcpc' = [srcpc EXCEPT ![d].pc = "pop"]
          /\ prepc' = [prepc EXCEPT ![d].pc = "start"]
          /\ fpc' = [fpc EXCEPT ![d] = "run"]
          /\ recpc' = [recpc EXCEPT ![d].pc = "run"]
          /\ sinkpc' = [sinkpc EXCEPT ![d] = "run"]
          /\ UNCHANGED <<pool, mainpc, exitcode>>
       \/ /\ preloader_stage_dtor(d, "stage_construction_error")
          /\ UNCHANGED <<srcpc, prepc, fpc, recpc, sinkpc>>
    /\ UNCHANGED <<filtervars, caught, devices, fut, task_queue,
                   taken, q1, q2, threads, results, sinkq, written, hist>>

\* main.cpp 97-98: pipeline.wait() returns when every worker has ended, or
\* rethrows the stage_runtime_error of a worker; leaving launch_pipeline
\* destroys the stages, the preloader_stage among them
PipelineReturn(d) ==
    /\ Alive
    /\ pipe[d] = "run"
    /\ launch_pipeline_wait(d)
    /\ preloader_stage_dtor(d, IF PipelineFailed(d) THEN "stage_runtime_error"
                                ELSE "returned")
    /\ UNCHANGED <<filtervars, caught, devices, fut, task_queue,
                   taken, srcpc, q1, prepc, q2, fpc, threads, results, recpc,
                   sinkq, sinkpc, written, hist>>

\* main.cpp 144-145: f.get() on the next future; it returns when
\* launch_pipeline has returned and rethrows the exception the future holds,
\* which leaves the try block
MainGet ==
    /\ Alive
    /\ mainpc = "wait"
    /\ fut < devices
    /\ pipe[fut] \in {"returned", "stage_construction_error", "stage_runtime_error"}
    /\ IF pipe[fut] = "returned"
       THEN fut' = fut + 1 /\ UNCHANGED <<mainpc, caught>>
       ELSE mainpc' = "unwind" /\ caught' = pipe[fut] /\ UNCHANGED fut
    /\ UNCHANGED <<filtervars, pipe, devices, exitcode, task_queue, taken, srcpc, q1,
                   prepc, pool, q2, fpc, threads, results, recpc, sinkq, sinkpc,
                   written, hist>>

\* main.cpp 153-170: all futures are done: "Reconstruction finished", return 0.
\* main.cpp 157-168: the matching handler runs once the try block's objects
\* are destroyed, the futures among them, and exits with EXIT_FAILURE
MainExit ==
    /\ Alive
    /\ \/ mainpc = "wait" /\ fut = devices
       \/ mainpc = "unwind" /\ FuturesReady
    /\ exitcode' = IF mainpc = "wait" THEN 0 ELSE main_catch(caught)
    /\ mainpc' = "exited"
    /\ UNCHANGED <<filtervars, pipe, caught, devices, fut, task_queue, taken, srcpc,
                   q1, prepc, pool, q2, fpc, threads, results, recpc, sinkq,
                   sinkpc, written, hist>>

(***************************** source stage ********************************)
\* The source of pipeline d pulls the shared task queue until it is empty,
\* emits the projections of each task in index order and then its sentinel.
SourcePop(d) ==
    /\ Alive
    /\ srcpc[d].pc = "pop"
    /\ IF task_queue = <<>>
       THEN /\ srcpc' = [srcpc EXCEPT ![d].pc = "eos"]
            /\ UNCHANGED <<task_queue, taken>>
       ELSE /\ srcpc' = [srcpc EXCEPT ![d] = [pc |-> "emit", task |-> Head(task_queue), idx |-> 1]]
            /\ task_queue' = Tail(task_queue)
            /\ taken' = Append(taken, <<d, Head(task_queue)>>)
    /\ UNCHANGED <<filtervars, pipe, caught, devices, mainpc, fut, exitcode, q1, prepc, pool, q2, fpc,
                   threads, results, recpc, sinkq, sinkpc, written, hist>>

SourceEmit(d) ==
    /\ Alive
    /\ srcpc[d].pc \in {"emit", "eos"}
    /\ ~Full(q1[d])
    /\ IF srcpc[d].pc = "eos"
       THEN /\ q1' = [q1 EXCEPT ![d] = Append(@, sentinel)]
            /\ srcpc' = [srcpc EXCEPT ![d].pc = "done"]
       ELSE /\ q1' = [q1 EXCEPT ![d] = Append(@, HostProjection(srcpc[d].task, srcpc[d].idx))]
            /\ srcpc' = [srcpc EXCEPT ![d] =
                            IF srcpc[d].idx = ProjPerTask
                            THEN [@ EXCEPT !.pc = "pop"]
                            ELSE [@ EXCEPT !.idx = @ + 1]]
    /\ UNCHANGED <<filtervars, pipe, caught, devices, mainpc, fut, exitcode, task_queue, taken, prepc,
                   pool, q2, fpc, threads, results, recpc, sinkq, sinkpc,
                   written, hist>>

(***************************** preloader_stage::run ************************)
\* the errors the CUDA calls of run() can raise, each caught by one handler
CudaErrors == {"bad_alloc", "invalid_argument", "runtime_error"}

\* faulty variant: run() returns after the loop without notifying the next stage
run_without_notify(out) == out

\* line 104: output_(output_type{}) after the loop
run_notify(out) == Append(out, sentinel)

\* lines 107-121: every handler logs and throws sre; nothing is pushed
run_catch(out) == out

\* line 92: ddrf::cuda::create_concurrent_stream()
create_concurrent_stream == [no_stream EXCEPT !.created = TRUE]

\* line 95: ddrf::cuda::fill(ddrf::cuda::async, dev_p, 0, stream, ...)
fill(s) == [s EXCEPT !.pending = Append(@, "fill")]

\* line 96: ddrf::cuda::copy(ddrf::cuda::async, dev_p, p.ptr, stream, ...)
copy(s) == [s EXCEPT !.pending = Append(@, "copy")]

\* faulty variant: the host does not wait for the stream
stream_not_synchronized(s) == s

\* line 98: ddrf::cuda::synchronize_stream(stream): the host thread waits
\* until everything enqueued on the stream has completed
synchronize_stream(s) ==
    [s EXCEPT !.completed = @ \o s.pending, !.pending = <<>>, !.syncs = @ + 1]

\* line 84: ddrf::cuda::set_device(device_)
PreStart(d) ==
    /\ Alive
    /\ prepc[d].pc = "start"
    /\ \/ prepc' = [prepc EXCEPT ![d].pc = "pull"] /\ UNCHANGED <<q2, hist>>
       \/ /\ prepc' = [prepc EXCEPT ![d].pc = "failed", ![d].err = "runtime_error"]
          /\ q2' = [q2 EXCEPT ![d] = run_catch(@)]
          /\ hist' = [hist EXCEPT ![d].pre_out = run_catch(@)]
    /\ UNCHANGED <<filtervars, pipe, caught, devices, mainpc, fut, exitcode, task_queue, taken, srcpc,
                   q1, pool, fpc, threads, results, recpc, sinkq, sinkpc,
                   written>>

\* lines 87-89: p = input_(); if(!p.valid) break
PrePull(d) ==
    /\ Alive
    /\ prepc[d].pc = "pull"
    /\ q1[d] # <<>>
    /\ q1' = [q1 EXCEPT ![d] = Tail(@)]
    /\ IF Head(q1[d]).valid
       THEN /\ prepc' = [prepc EXCEPT ![d].pc = "alloc", ![d].p = Head(q1[d]),
                                      ![d].host = Head(q1[d])]
            /\ hist' = [hist EXCEPT ![d].pre_in = Append(@, Head(q1[d]))]
       ELSE /\ prepc' = [prepc EXCEPT ![d].pc = "eos"]
            /\ UNCHANGED hist
    /\ UNCHANGED <<filtervars, pipe, caught, devices, mainpc, fut, exitcode, task_queue, taken, srcpc,
                   pool, q2, fpc, threads, results, recpc, sinkq, sinkpc,
                   written>>

\* lines 91-98: allocate_smart, create_concurrent_stream, fill, copy,
\* synchronize_stream.  allocate_smart blocks while the pool is at its limit.
\* The host projection p lives to the end of the loop body, line 101.
\* An error raised after the allocation drops dev_p during unwinding, which
\* returns the buffer, so a failed upload leaves the pool as it was.
PreUpload(d) ==
    /\ Alive
    /\ prepc[d].pc = "alloc"
    /\ CanAllocate(pool[d])
    /\ \/ /\ pool' = [pool EXCEPT ![d] = allocate_smart(@)]
          /\ prepc' = [prepc EXCEPT
                          ![d].pc = "push",
                          ![d].p = DeviceProjection(@, d),
                          ![d].stream = synchronize_stream(copy(fill(create_concurrent_stream)))]
          /\ UNCHANGED <<q2, hist>>
       \/ \E e \in CudaErrors :
          /\ prepc' = [prepc EXCEPT ![d].pc = "failed", ![d].err = e,
                                     ![d].p = sentinel, ![d].host = sentinel]
          /\ pool' = [pool EXCEPT ![d] = IF e = "bad_alloc" THEN @ ELSE drop(allocate_smart(@))]
          /\ q2' = [q2 EXCEPT ![d] = run_catch(@)]
          /\ hist' = [hist EXCEPT ![d].pre_out = run_catch(@)]
    /\ UNCHANGED <<filtervars, pipe, caught, devices, mainpc, fut, exitcode, task_queue, taken, srcpc,
                   q1, fpc, threads, results, recpc, sinkq, sinkpc, written>>

\* line 100: output_(output_type{std::move(dev_p), ...}) and
\* line 104: output_(output_type{}); a push blocks while the edge is full
PrePush(d) ==
    /\ Alive
    /\ prepc[d].pc \in {"push", "eos"}
    /\ ~Full(q2[d])
    /\ IF prepc[d].pc = "push"
       THEN /\ q2' = [q2 EXCEPT ![d] = Append(@, prepc[d].p)]
            /\ hist' = [hist EXCEPT ![d].pre_out = Append(@, prepc[d].p),
                                    ![d].pre_streams = Append(@, prepc[d].stream)]
            /\ prepc' = [prepc EXCEPT ![d].pc = "pull", ![d].p = sentinel,
                                      ![d].host = sentinel, ![d].stream = no_stream]
       ELSE /\ q2' = [q2 EXCEPT ![d] = run_notify(@)]
            /\ hist' = [hist EXCEPT ![d].pre_out = run_notify(@)]
            /\ prepc' = [prepc EXCEPT ![d].pc = "done"]
    /\ UNCHANGED <<filtervars, pipe, caught, devices, mainpc, fut, exitcode, task_queue, taken, srcpc,
                   q1, pool, fpc, threads, results, recpc, sinkq, sinkpc,
                   written>>

(***************************** Filter stage ********************************)
\* Filter::process lines 365-369: a processor thread is started for the
\* device i in [0, devices_) that the image lives on; no thread otherwise
process(img, thr, devs) ==
    IF img.device \in 0 .. (devs - 1)
    THEN Append(thr, [img |-> img, done |-> FALSE, threw |-> FALSE, plans |-> {},
                      kernel |-> FALSE])
    ELSE thr

\* the calls of Filter::processor that ddrf::cuda::check / checkCufft guard,
\* by the plans created before them: cudaSetDevice, the allocations and the
\* first cufftPlanMany (lines 403-426), cufftPlan1d (440), the second
\* cufftPlanMany (443), and the cufftExec calls (457-468)
ProcessorFaults == {"cufftPlanMany", "cufftPlan1d", "cufftPlanManyInverse", "cufftExecR2C"}

\* lines 425-454: the cufftHandles created when call f is reached
cufftPlan(f) ==
    CASE f = "cufftPlanMany" -> {}
      [] f = "cufftPlan1d" -> {"projectionPlan"}
      [] f = "cufftPlanManyInverse" -> {"projectionPlan", "filterPlan"}
      [] OTHER -> {"projectionPlan", "filterPlan", "inversePlan"}

\* faulty variant: the projection plan is never destroyed
cufftDestroy_two(plans) == plans \ {"inversePlan", "filterPlan"}

\* lines 475-477: cufftDestroy(inversePlan), (filterPlan), (projectionPlan)
cufftDestroy(plans) == plans \ {"inversePlan", "filterPlan", "projectionPlan"}

\* Filter::processor line 479: results_.push(std::move(img))
processor(res, img) == Append(res, img)

\* Filter::finish lines 486-487: every processor thread has been joined
Joined(thr) == \A k \in 1 .. Len(thr) : thr[k].done

\* faulty variant: finish() joins the threads and pushes nothing
finish_without_pill(res) == res

\* Filter::finish line 489: results_.push(output_type())
finish(res) == Append(res, sentinel)

\* The stage's driver takes the next item of its input edge and hands it to
\* Filter::process (lines 356-370); a sentinel makes process call finish()
FilterProcess(d) ==
    /\ Alive
    /\ fpc[d] = "run"
    /\ q2[d] # <<>>
    /\ q2' = [q2 EXCEPT ![d] = Tail(@)]
    /\ IF Head(q2[d]).valid
       THEN /\ threads' = [threads EXCEPT ![d] = process(Head(q2[d]), @, devices)]
            /\ hist' = [hist EXCEPT ![d].f_in = Append(@, Head(q2[d]))]
            /\ UNCHANGED fpc
       ELSE /\ fpc' = [fpc EXCEPT ![d] = "finish"]
            /\ UNCHANGED <<threads, hist>>
    /\ UNCHANGED <<filtervars, pipe, caught, devices, mainpc, fut, exitcode, task_queue, taken, srcpc,
                   q1, prepc, pool, results, recpc, sinkq, sinkpc, written>>

\* Filter::processor lines 401-480, one thread per submitted projection; the
\* projection is filtered in place, the plans are destroyed and the
\* projection is pushed to results_, which is constructed without a limit.
\* A failing CUDA or cuFFT call throws out of the thread function: the plans
\* created so far stay, std::terminate raises SIGABRT and signal_handler
\* (main.cpp 70-78) ends the process with EXIT_FAILURE.
FilterProcessor(d, k) ==
    /\ Alive
    /\ k \in 1 .. Len(threads[d])
    /\ ~threads[d][k].done
    /\ \/ /\ threads' = [threads EXCEPT
                            ![d][k].done = TRUE,
                            ![d][k].kernel = rs_[threads[d][k].img.device].set,
                            ![d][k].plans = cufftDestroy(cufftPlan("done"))]
          /\ results' = [results EXCEPT ![d] = processor(@, threads[d][k].img)]
          /\ hist' = [hist EXCEPT ![d].f_out = processor(@, threads[d][k].img)]
          /\ UNCHANGED <<mainpc, exitcode>>
       \/ \E f \in ProcessorFaults :
          /\ threads' = [threads EXCEPT ![d][k].threw = TRUE,
                                        ![d][k].plans = cufftPlan(f)]
          /\ mainpc' = "aborted"
          /\ exitcode' = EXIT_FAILURE
          /\ UNCHANGED <<results, hist>>
    /\ UNCHANGED <<filtervars, pipe, caught, devices, fut, task_queue, taken, srcpc,
                   q1, prepc, pool, q2, fpc, recpc, sinkq, sinkpc, written>>

\* Filter::finish lines 482-490: join the threads, then push the sentinel
FilterFinish(d) ==
    /\ Alive
    /\ fpc[d] = "finish"
    /\ Joined(threads[d])
    /\ fpc' = [fpc EXCEPT ![d] = "done"]
    /\ results' = [results EXCEPT ![d] = finish(@)]
    /\ hist' = [hist EXCEPT ![d].f_out = finish(@)]
    /\ UNCHANGED <<filtervars, pipe, caught, devices, mainpc, fut, exitcode, task_queue, taken, srcpc,
                   q1, prepc, pool, q2, threads, recpc, sinkq, sinkpc, written>>

(***************************** reconstruction stage ************************)
TaskIds(t) == {<<t, i>> : i \in 1 .. ProjPerTask}

\* The reconstruction stage takes the next filtered projection
\* (Filter::wait, lines 372-375), accumulates it into the slab of its task
\* and releases the projection handle, which returns the buffer to the pool;
\* a slab whose projections have all arrived goes to the sink.  On the
\* sentinel it forwards the sentinel to the sink and returns.
ReconTake(d) ==
    /\ Alive
    /\ recpc[d].pc = "run"
    /\ results[d] # <<>>
    /\ results' = [results EXCEPT ![d] = Tail(@)]
    /\ LET img == Head(results[d])
           seen == recpc[d].seen \cup {Id(img)}
       IN IF img.valid
          THEN /\ pool' = [pool EXCEPT ![d] = drop(@)]
               /\ recpc' = [recpc EXCEPT ![d].seen = seen]
               /\ sinkq' = IF TaskIds(img.task) \subseteq seen
                           THEN Append(sinkq, Slab(img.task, d))
                           ELSE sinkq
          ELSE /\ recpc' = [recpc EXCEPT ![d].pc = "done"]
               /\ sinkq' = Append(sinkq, sentinel)
               /\ UNCHANGED pool
    /\ UNCHANGED <<filtervars, pipe, caught, devices, mainpc, fut, exitcode, task_queue, taken, srcpc,
                   q1, prepc, q2, fpc, threads, sinkpc, written, hist>>

(***************************** sink stage **********************************)
\* SinkStage::run lines 45-58: take an item; save it when valid, break on
\* the first poisonous pill
SinkRun(d) ==
    /\ Alive
    /\ sinkpc[d] = "run"
    /\ sinkq # <<>>
    /\ sinkq' = Tail(sinkq)
    /\ IF Head(sinkq).valid
       THEN written' = written \cup {Head(sinkq)} /\ UNCHANGED sinkpc
       ELSE sinkpc' = [sinkpc EXCEPT ![d] = "done"] /\ UNCHANGED written
    /\ UNCHANGED <<filtervars, pipe, caught, devices, mainpc, fut, exitcode, task_queue, taken, srcpc,
                   q1, prepc, pool, q2, fpc, threads, results, recpc, hist>>

(***************************** specification *******************************)
PipeNext ==
    \/ MainLaunch
    \/ \E d \in Devs : LaunchPipeline(d)
    \/ \E d \in Devs : PipelineReturn(d)
    \/ MainGet
    \/ MainExit
    \/ \E d \in Devs : SourcePop(d)
    \/ \E d \in Devs : SourceEmit(d)
    \/ \E d \in Devs : PreStart(d)
    \/ \E d \in Devs : PrePull(d)
    \/ \E d \in Devs : PreUpload(d)
    \/ \E d \in Devs : PrePush(d)
    \/ \E d \in Devs : FilterProcess(d)
    \/ \E d \in Devs : \E k \in 1 .. (NumTasks * ProjPerTask) : FilterProcessor(d, k)
    \/ \E d \in Devs : FilterFinish(d)
    \/ \E d \in Devs : ReconTake(d)
    \/ \E d \in Devs : SinkRun(d)

Next == PipeNext

Spec == Init /\ [][Next]_vars

\* a scheduler never leaves the whole program stopped while a worker can run
FairSpec == Spec /\ WF_vars(Next)

\* the program on a machine with one device: a single pipeline
OneDeviceInit == Init /\ devices = 1
PipeSpec == OneDeviceInit /\ [][Next]_vars

(***************************** Filter constructor **************************)
\* FilterSpec takes one Filter from its construction, for every detector
\* geometry and device count within the bounds, through the projections a
\* caller submits to it.

\* the device ids a submitted projection may carry
DeviceIds == -1 .. MaxDevices

\* the values a read beyond a row of the padded buffer may give
Beyond == {pixel(0), pixel(-1)}

FilterInit ==
    /\ PipeInit
    /\ geo \in Geometries
    /\ filter_length = 0
    /\ fctor = "idle"
    /\ fcreate = [d \in Devs |-> "off"]
    /\ j_host_buffer = [d \in Devs |-> [size |-> 0, writes |-> <<>>]]
    /\ rs_ = [d \in Devs |-> no_kernel]
    /\ conv = no_conversion(geo)
    /\ kf = no_k
    /\ master = no_master

\* Filter::Filter lines 337-350: filter_length_, cudaGetDeviceCount,
\* rs_.resize(devices_), one filterProcessor thread per device
FilterConstruct ==
    /\ Alive
    /\ fctor = "idle"
    /\ fctor' = "creating"
    /\ filter_length' = Filter(geo)
    /\ rs_' = [d \in Devs |-> no_kernel]
    /\ fcreate' = [d \in Devs |-> IF d < devices THEN "run" ELSE "off"]
    /\ UNCHANGED <<kf, master, geo, j_host_buffer, conv, pipevars>>

\* Filter::filterProcessor lines 377-399, the thread of device i: the loop
\* writes j_host_buffer[0 .. filter_length_], the kernel is created and
\* stored in rs_[i].  The write of j_host_buffer[filter_length_] is outside
\* the buffer: the thread goes on, or the write faults, SIGSEGV is raised
\* and signal_handler ends the process.
FilterCreate(i) ==
    /\ Alive
    /\ fcreate[i] = "run"
    /\ j_host_buffer' = [j_host_buffer EXCEPT
                            ![i] = [size |-> filter_length, writes |-> j_loop(filter_length)]]
    /\ \/ /\ rs_' = [rs_ EXCEPT ![i] = filterProcessor(filter_length)]
          /\ fcreate' = [fcreate EXCEPT ![i] = "done"]
          /\ UNCHANGED <<mainpc, exitcode>>
       \/ /\ mainpc' = "aborted"
          /\ exitcode' = EXIT_FAILURE
          /\ UNCHANGED <<rs_, fcreate>>
    /\ UNCHANGED <<kf, master, geo, filter_length, fctor, conv, pipe, caught, devices, fut,
                   task_queue, taken, srcpc, q1, prepc, pool, q2, fpc, threads,
                   results, recpc, sinkq, sinkpc, written, hist>>

\* faulty variant: the constructor does not join its threads
filter_creation_not_joined(fc) == TRUE

\* lines 352-353: for(auto&& t : filter_creation_threads) t.join()
filter_creation_joined(fc) == \A d \in Devs : fc[d] # "run"

\* Filter::Filter returns; the stage that owns the Filter can be driven
FilterReturn ==
    /\ Alive
    /\ fctor = "creating"
    /\ filter_creation_joined(fcreate)
    /\ fctor' = "returned"
    /\ fpc' = [fpc EXCEPT ![0] = "run"]
    /\ UNCHANGED <<kf, master, geo, filter_length, fcreate, j_host_buffer, rs_, conv, pipe,
                   caught, devices, mainpc, fut, exitcode, task_queue, taken,
                   srcpc, q1, prepc, pool, q2, threads, results, recpc, sinkq,
                   sinkpc, written, hist>>

\* the caller of the Filter hands over its next item: a projection that
\* lives on any device id, or the poisonous pill
FilterSubmit ==
    /\ Alive
    /\ fctor = "returned"
    /\ fpc[0] = "run"
    /\ conv.pc = "off" /\ kf.pc = "off"
    /\ q2[0] = <<>>
    /\ \/ /\ Len(hist[0].f_in) < MaxSubmit
          /\ \E dev \in DeviceIds :
                q2' = [q2 EXCEPT ![0] =
                          Append(@, DeviceProjection(HostProjection(Len(hist[0].f_in) + 1, 1), dev))]
       \/ q2' = [q2 EXCEPT ![0] = Append(@, sentinel)]
    /\ UNCHANGED <<filtervars, pipe, caught, devices, mainpc, fut, exitcode,
                   task_queue, taken, srcpc, q1, prepc, pool, fpc, threads,
                   results, recpc, sinkq, sinkpc, written, hist>>

Max(a, b) == IF a >= b THEN a ELSE b

\* Filter::processor lines 407-409: the projection is padded into the
\* buffer converted, which is filter_length_ wide
ConvertProjection ==
    /\ Alive
    /\ fctor = "returned"
    /\ conv.pc = "off" /\ kf.pc = "off"
    /\ hist[0].f_in = <<>> /\ q2[0] = <<>> /\ fpc[0] = "run"
    /\ conv' = [conv EXCEPT
                  !.pc = "padded",
                  !.converted = convertProjection(conv.img, geo.det_pixels_row,
                                                  geo.det_pixels_column, filter_length)]
    /\ UNCHANGED <<kf, master, geo, filter_length, fctor, fcreate, j_host_buffer, rs_, pipevars>>

\* Filter::processor lines 471-472: convertFiltered is launched over
\* filter_length_ x height threads, or as many more as the launch rounds
\* up to, and writes the padded buffer back into the projection
ConvertFiltered ==
    /\ Alive
    /\ conv.pc = "padded"
    /\ \E gridx \in {filter_length, Max(filter_length, geo.det_pixels_row)} :
       \E beyond \in Beyond :
          conv' = [conv EXCEPT
                     !.pc = "unpadded",
                     !.img = convertFiltered(conv.img, conv.converted, geo.det_pixels_row,
                                             geo.det_pixels_column, filter_length,
                                             gridx, beyond)]
    /\ UNCHANGED <<kf, master, geo, filter_length, fctor, fcreate, j_host_buffer, rs_, pipevars>>

\* the positive pixel sizes tau_ = geo.det_pixel_size_horiz
Taus == {1, 2}

\* what cufftExecR2C may leave in the first element of the transformed
\* filter and of a transformed row
Samples == {complex(0, 0), complex(-1, 2), complex(3, -4)}

\* Filter::processor lines 412-415, 457-461: the transformed filter and the
\* transformed projection are L/2 + 1 wide, the rows of the projection
\* pitched (one element of padding here); cufftExecR2C fills them, then
\* createK is launched over the transformed filter
CreateK ==
    /\ Alive
    /\ fctor = "returned"
    /\ conv.pc = "off" /\ kf.pc = "off"
    /\ hist[0].f_in = <<>> /\ q2[0] = <<>> /\ fpc[0] = "run"
    /\ LET n == filter_length \div 2 + 1
       IN  \E tau \in Taus : \E f \in Samples : \E a \in Samples :
           \E gridx \in {n, n + 1} :
              LET filter == [x \in 0 .. (n - 1) |->
                                complex(f.x.c + x, f.y.c - x)]
                  data == [y \in 0 .. (geo.det_pixels_column - 1) |->
                              [x \in 0 .. n |-> complex(a.x.c - x + y, a.y.c + x)]]
              IN  kf' = [pc |-> "K", tau |-> tau, filter0 |-> filter,
                         filter |-> createK(filter, n, tau, gridx),
                         data0 |-> data, data |-> data]
    /\ UNCHANGED <<master, geo, filter_length, fctor, fcreate, j_host_buffer, rs_,
                   conv, pipevars>>

\* Filter::processor lines 463-465: applyFilter is launched over
\* (L/2 + 1) x height threads, or as many more as the launch rounds up to
ApplyFilter ==
    /\ Alive
    /\ kf.pc = "K"
    /\ LET n == filter_length \div 2 + 1
       IN  \E gridx \in {n, n + 1} :
              kf' = [kf EXCEPT
                       !.pc = "applied",
                       !.data = applyFilter(kf.data, kf.filter, n,
                                            geo.det_pixels_column, gridx)]
    /\ UNCHANGED <<master, geo, filter_length, fctor, fcreate, j_host_buffer, rs_,
                   conv, pipevars>>

FilterNext ==
    \/ FilterConstruct
    \/ \E i \in Devs : FilterCreate(i)
    \/ FilterReturn
    \/ FilterSubmit
    \/ FilterProcess(0)
    \/ \E k \in 1 .. MaxSubmit : FilterProcessor(0, k)
    \/ FilterFinish(0)
    \/ ConvertProjection
    \/ ConvertFiltered
    \/ CreateK
    \/ ApplyFilter

FilterSpec == FilterInit /\ [][FilterNext]_vars

(***************************** CUDAMaster **********************************)
\* MasterSpec constructs one CUDAMaster for a device of every compute
\* capability within the bounds and asks it for its worker count.

\* CUDAMaster::CUDAMaster(int device_num), before the device is looked at
MasterInit ==
    /\ PipeInit
    /\ FilterBuilt
    /\ \E dev \in Devs : \E major \in 0 .. MaxMajor : \E minor \in 0 .. MaxMinor :
          master = [no_master EXCEPT !.pc = "new", !.device = dev,
                                     !.major = major, !.minor = minor]

\* CUDAMaster::CUDAMaster lines 91-166: cudaGetDeviceProperties succeeds or
\* fails, then the switch
MasterConstruct ==
    /\ master.pc = "new"
    /\ \/ master' = CUDAMaster(master)
       \/ master' = assertCuda(master)
    /\ UNCHANGED <<kf, geo, filter_length, fctor, fcreate, j_host_buffer, rs_, conv,
                   pipevars>>

\* CUDAMaster::workerCount() on a constructed object
MasterWorkerCount ==
    /\ master.pc = "constructed"
    /\ master' = [master EXCEPT !.pc = "asked", !.returned = workerCount(master)]
    /\ UNCHANGED <<kf, geo, filter_length, fctor, fcreate, j_host_buffer, rs_, conv,
                   pipevars>>

MasterNext == MasterConstruct \/ MasterWorkerCount

MasterSpec == MasterInit /\ [][MasterNext]_vars

(***************************** properties **********************************)
IsPrefix(a, b) == Len(a) <= Len(b) /\ a = SubSeq(b, 1, Len(a))

\* a stage of some pipeline has raised stage_runtime_error
StageRuntimeFailure == \E d \in Devs : PipelineFailed(d)

\* the geometry calculation or the task generation of main has failed
GeometryFailed ==
    caught = "stage_construction_error" /\ \A d \in Devs : pipe[d] = "off"

\* main has created the task queue
QueueCreated == mainpc # "launch" /\ ~GeometryFailed

\* something has failed: a stage at run time, a stage constructor, main's
\* own preparation, or a thread that ended the process
FaultRaised ==
    \/ StageRuntimeFailure
    \/ \E d \in Devs : pipe[d] = "stage_construction_error"
    \/ caught # "none"
    \/ ~Alive

\* C1: on the preloader's output edge and on the Filter's results queue at
\* most one sentinel is ever pushed and nothing is pushed after it; once
\* preloader_stage::run has consumed its input up to the sentinel and
\* returned, and once Filter::process has been given the sentinel and
\* finish() has returned, exactly one sentinel is on that edge, behind the
\* projection of every pull, respectively of every processor thread.
C1_OneSentinelPerEdge ==
    \A d \in Devs :
        /\ SentinelCount(hist[d].pre_out) <= 1
        /\ SentinelLast(hist[d].pre_out)
        /\ SentinelCount(hist[d].f_out) <= 1
        /\ SentinelLast(hist[d].f_out)
        /\ prepc[d].pc = "done" =>
              /\ SentinelCount(hist[d].pre_out) = 1
              /\ Len(hist[d].pre_out) = Len(hist[d].pre_in) + 1
        /\ fpc[d] = "done" =>
              /\ SentinelCount(hist[d].f_out) = 1
              /\ Len(hist[d].f_out) = Len(threads[d]) + 1

\* C1 witness: a pipeline through which several valid projections and then
\* the sentinel have passed both edges
C1_Witness ==
    \E d \in Devs :
        /\ prepc[d].pc = "done"
        /\ fpc[d] = "done"
        /\ Len(hist[d].pre_out) >= 3
        /\ Len(hist[d].f_out) >= 3
        /\ ~hist[d].f_out[Len(hist[d].f_out)].valid

\* C2: the valid projections leave each stage in the order in which they
\* entered it: what the preloader has pushed is a prefix of what it pulled,
\* and what the Filter has put on its results queue is a prefix of what was
\* submitted to Filter::process.
C2_OrderPreserved ==
    \A d \in Devs :
        /\ IsPrefix(Ids(ValidOnly(hist[d].pre_out)), Ids(hist[d].pre_in))
        /\ IsPrefix(Ids(ValidOnly(hist[d].f_out)), Ids(hist[d].f_in))

\* C3: when preloader_stage::run has failed with a CUDA error it holds no
\* pool buffer and it has pushed the sentinel on its output.
C3_ErrorPushesSentinel ==
    \A d \in Devs :
        prepc[d].pc = "failed" =>
            /\ ~prepc[d].p.valid
            /\ SentinelCount(hist[d].pre_out) = 1

\* every worker of every launched pipeline has returned normally
AllWorkersReturned ==
    \A d \in Devs : d < devices => PipelineComplete(d) /\ ~PipelineFailed(d)

\* main has logged "Reconstruction finished" and returned 0
ReportedFinished == mainpc = "exited" /\ exitcode = 0

\* C4: main reports the finished reconstruction only when the workers of
\* every device's pipeline have returned, and under fair scheduling every
\* run in which no stage raises an error reaches that report: the sentinels
\* alone end every worker (the model has no other way to stop one).
C4_NormalShutdown ==
    /\ [](ReportedFinished => AllWorkersReturned)
    /\ <>(FaultRaised \/ ReportedFinished)

\* C4 witness: two pipelines have both taken tasks, every slab is written
\* and main has reported the finished reconstruction
C4_Witness ==
    /\ ReportedFinished
    /\ devices = 2
    /\ \A d \in 0 .. 1 : \E i \in 1 .. Len(taken) : taken[i][1] = d
    /\ Cardinality(written) = NumTasks

\* C5: once a stage has raised a stage runtime failure the process
\* eventually exits with a nonzero code, after every worker of every
\* pipeline has ended, and it never returns 0.
C5_FailureExitsNonzero ==
    /\ [](StageRuntimeFailure => exitcode # 0)
    /\ StageRuntimeFailure ~> (/\ mainpc = "exited"
                               /\ exitcode # 0
                               /\ \A d \in Devs : d < devices => PipelineComplete(d))

\* C6: every edge of a pipeline (source -> preloader, preloader -> Filter,
\* and the Filter's results queue) never buffers more than input_limit items.
C6_EdgesBounded ==
    \A d \in Devs :
        /\ Len(q1[d]) <= input_limit
        /\ Len(q2[d]) <= input_limit
        /\ Len(results[d]) <= input_limit

\* device projections of pipeline d that exist: held by the preloader, on
\* the edge to the Filter, inside a processor thread or on the results queue
InFlight(d) ==
    (IF prepc[d].pc = "push" THEN 1 ELSE 0)
    + Len(ValidOnly(q2[d]))
    + Cardinality({k \in 1 .. Len(threads[d]) : ~threads[d][k].done})
    + Len(ValidOnly(results[d]))

\* preloader_stage::run waits in allocate_smart with the pool at its limit
BlockedOnPool(d) == prepc[d].pc = "alloc" /\ pool[d].out >= PoolLimit

\* C7: the buffers handed out by a preloader's pool and not yet dropped are
\* exactly the device projections in flight and never more than the pool
\* limit given at construction; while the pool is at its limit the
\* preloader stays in allocate_smart, neither proceeding nor failing, until
\* a buffer has been returned.
C7_PoolBounded ==
    /\ [](\A d \in Devs : pool[d].out <= PoolLimit /\ pool[d].out = InFlight(d))
    /\ [][\A d \in Devs : BlockedOnPool(d) => prepc'[d] = prepc[d]]_vars

\* C7 witness: the pool is at its limit, the preloader has pulled the next
\* projection and waits for a buffer
C7_Witness ==
    \E d \in Devs : BlockedOnPool(d) /\ pool[d].out = PoolLimit /\ prepc[d].p.valid

TakenTasks == {taken[i][2] : i \in 1 .. Len(taken)}
QueueTasks == {task_queue[i] : i \in 1 .. Len(task_queue)}

\* C8: no task is popped twice, every task made by make_tasks is either
\* still in the queue or popped by exactly one pipeline, and when the source
\* of every pipeline has returned the queue is empty and every task is taken.
C8_TasksTakenOnce ==
    /\ \A i, j \in 1 .. Len(taken) : i # j => taken[i][2] # taken[j][2]
    /\ Len(taken) + Len(task_queue) = (IF QueueCreated THEN NumTasks ELSE 0)
    /\ QueueCreated =>
          /\ TakenTasks \cup QueueTasks = Tasks
          /\ TakenTasks \cap QueueTasks = {}
    /\ (/\ QueueCreated
        /\ devices >= 1
        /\ \A d \in Devs : d < devices => srcpc[d].pc = "done") =>
          /\ task_queue = <<>>
          /\ TakenTasks = Tasks

\* C8 witness: two pipelines have drained the queue between them, each
\* taking at least one task, and both have finished
C8_Witness ==
    /\ devices = 2
    /\ \A d \in 0 .. 1 : PipelineComplete(d) /\ \E i \in 1 .. Len(taken) : taken[i][1] = d
    /\ task_queue = <<>>

\* C9: a run loop of the shared sink returns only when no pipeline has a
\* slab left to deliver: every pipeline's reconstruction stage has returned
\* and the slab of every task has been written.
C9_SinkWaitsForAllTasks ==
    \A d \in Devs :
        sinkpc[d] = "done" =>
            /\ \A e \in Devs : e < devices => recpc[e].pc = "done"
            /\ {w.task : w \in written} = Tasks

IsPow2(n) == \E k \in 0 .. n : n = Pow2(k)

\* C10: the filter_length computed by the Filter constructor is a power of
\* two and at least twice the projection width n_h (det_pixels_row).
C10_FilterLength ==
    filter_length # 0 =>
        /\ IsPow2(filter_length)
        /\ filter_length >= 2 * geo.det_pixels_row

\* C11: with a device count of 0 the program does not report a finished
\* reconstruction, exits with a nonzero code and runs no task.
C11_NoDeviceAborts ==
    devices = 0 =>
        /\ ~ReportedFinished
        /\ mainpc = "exited" => exitcode # 0
        /\ taken = <<>>

\* an exception has left main's try block: raised by the geometry
\* calculation or the task generation, or rethrown by the future main waited on
ErrorReachedMain ==
    \/ GeometryFailed
    \/ /\ mainpc \in {"unwind", "exited"}
       /\ fut < devices
       /\ pipe[fut] \in {"stage_construction_error", "stage_runtime_error"}

\* C12: while the process runs, an exception is caught by main exactly when
\* one was raised by its preparation or by the future it waited on (the
\* geometry calculation, the task generation or a pipeline future, as
\* stage_construction_error or stage_runtime_error); when main has ended the exit
\* code is 0 exactly when nothing was caught, and EXIT_FAILURE otherwise;
\* main returns 0 only with every pipeline future returned; and, unless a
\* worker is stopped by a stage runtime failure or a thread ends the process,
\* a caught exception leads to the exit with EXIT_FAILURE.
C12_ExitCode ==
    /\ [](Alive => (caught # "none" <=> ErrorReachedMain))
    /\ [](mainpc = "exited" =>
            /\ exitcode = 0 <=> caught = "none"
            /\ caught # "none" => exitcode = EXIT_FAILURE
            /\ exitcode = 0 => \A d \in Devs : d < devices => pipe[d] = "returned")
    /\ (caught # "none") ~>
          \/ mainpc = "exited" /\ exitcode = EXIT_FAILURE
          \/ StageRuntimeFailure
          \/ ~Alive

\* C12 witness: of two pipelines one failed in a stage constructor, the
\* other reconstructed every task, and main has exited with EXIT_FAILURE
C12_Witness ==
    /\ mainpc = "exited"
    /\ exitcode = EXIT_FAILURE
    /\ caught = "stage_construction_error"
    /\ \E d \in Devs : pipe[d] = "returned" /\ Len(taken) = NumTasks

\* everything enqueued on the stream has completed, after one wait
Synchronized(s) ==
    /\ s.created
    /\ s.pending = <<>>
    /\ s.completed = <<"fill", "copy">>
    /\ s.syncs = 1

\* C13: when preloader_stage::run is about to push a projection it holds a
\* pool buffer, the stream was created, fill and then copy were enqueued and
\* have completed, the stream was synchronized exactly once, and the host
\* projection it was copied from is still held; every projection pushed so
\* far was pushed in that state, and the host projection is held from the
\* pull to the push.
C13_UploadBeforePush ==
    \A d \in Devs :
        /\ prepc[d].pc = "push" =>
              /\ Synchronized(prepc[d].stream)
              /\ pool[d].out >= 1
              /\ prepc[d].p.valid /\ prepc[d].p.device = d
              /\ prepc[d].host.valid /\ Id(prepc[d].host) = Id(prepc[d].p)
        /\ prepc[d].pc = "alloc" => prepc[d].host.valid
        /\ Len(hist[d].pre_streams) = Len(ValidOnly(hist[d].pre_out))
        /\ \A i \in 1 .. Len(hist[d].pre_streams) : Synchronized(hist[d].pre_streams[i])

\* C13 witness: two projections were pushed and a third is uploaded
C13_Witness ==
    \E d \in Devs : prepc[d].pc = "push" /\ Len(hist[d].pre_streams) >= 2

\* C14: a processor thread that has ended, by returning or by an exception,
\* has no FFT plan left.
C14_PlansReleased ==
    \A d \in Devs : \A k \in 1 .. Len(threads[d]) :
        (threads[d][k].done \/ threads[d][k].threw) => threads[d][k].plans = {}

\* C15: when the preloader_stage of a pipeline is destroyed no buffer of its
\* pool is out: none is held by the preloader, on an edge, in a processor
\* thread or on the results queue; and none is handed out afterwards.
C15_PoolReturnedAtDestruction ==
    /\ [][\A d \in Devs : (pool'[d].released /\ ~pool[d].released) =>
                             pool[d].out = 0 /\ InFlight(d) = 0]_vars
    /\ [](\A d \in Devs : pool[d].released => pool[d].out = 0 /\ InFlight(d) = 0)

\* C15 witness: a pipeline whose pool handed out a buffer for each of three
\* projections has returned and its preloader_stage is destroyed
C15_Witness ==
    \E d \in Devs :
        /\ pool[d].released
        /\ pipe[d] = "returned"
        /\ Len(ValidOnly(hist[d].pre_out)) >= 3

\* how often the projection with identity id occurs in the sequence s
Occurrences(id, s) == Cardinality({i \in 1 .. Len(s) : s[i].valid /\ Id(s[i]) = id})

\* C16: no projection is on the results queue more often than once, and
\* none that was not submitted to Filter::process; when finish() has
\* returned, every submitted projection has had one processor thread and is
\* on the results queue once, before the sentinel, whichever device id it
\* carries.
C16_ProcessedExactlyOnce ==
    \A d \in Devs :
        /\ \A i \in 1 .. Len(hist[d].f_out) :
              hist[d].f_out[i].valid =>
                 /\ Occurrences(Id(hist[d].f_out[i]), hist[d].f_out) = 1
                 /\ Occurrences(Id(hist[d].f_out[i]), hist[d].f_in) = 1
        /\ fpc[d] = "done" =>
              /\ Len(threads[d]) = Len(hist[d].f_in)
              /\ \A i \in 1 .. Len(hist[d].f_in) :
                    Occurrences(Id(hist[d].f_in[i]), hist[d].f_out) = 1

\* C17: every write of filterProcessor's loop has an index k with
\* 0 <= k < L, where L is the size of the index buffer, and writes
\* j = k - (L-2)/2; the values written run from -(L-2)/2 to L/2.
C17_IndexBufferInBounds ==
    \A d \in Devs :
        LET L == j_host_buffer[d].size
            w == j_host_buffer[d].writes
        IN  w # <<>> =>
               /\ \A n \in 1 .. Len(w) :
                     /\ 0 <= w[n].k /\ w[n].k < L
                     /\ w[n].j = w[n].k - (L - 2) \div 2
               /\ w[1].j = -((L - 2) \div 2)
               /\ w[Len(w)].j = L \div 2

\* C18: when the Filter constructor has returned, the kernel of every device
\* in [0, devices) is stored in rs_; a step changes rs_[d] only as the
\* creation thread of device d; and a processor thread that has run read an
\* rs_ entry that was stored.
C18_KernelsStoredBeforeUse ==
    /\ [](fctor = "returned" => \A d \in Devs : d < devices => rs_[d].set)
    /\ [][\A d \in Devs : rs_'[d] # rs_[d] =>
             \/ fcreate[d] = "run" /\ fcreate'[d] = "done"
             \/ fctor = "idle"]_vars
    /\ [](\A d \in Devs : \A k \in 1 .. Len(threads[d]) :
             threads[d][k].done => threads[d][k].kernel)

\* C18 witness: with two devices the constructor has returned and a
\* processor thread of a projection on device 1 has run
C18_Witness ==
    /\ fctor = "returned"
    /\ devices = 2
    /\ \E k \in 1 .. Len(threads[0]) :
          threads[0][k].done /\ threads[0][k].img.device = 1

\* C19: the padded buffer holds, in every row y, input[x] for x < n_h and 0
\* for n_h <= x < L; after convertFiltered every pixel x < n_h, y < height
\* of the projection holds its own former value divided by L.
C19_PadUnpadKeepsSamples ==
    LET n_h == geo.det_pixels_row
        height == geo.det_pixels_column
        input == Projection(geo)
    IN  /\ conv.pc \in {"padded", "unpadded"} =>
              \A y \in 0 .. (height - 1) :
                 /\ \A x \in 0 .. (n_h - 1) :
                       x \in DOMAIN conv.converted[y] /\ conv.converted[y][x] = input[y][x]
                 /\ \A x \in n_h .. (filter_length - 1) : conv.converted[y][x] = pixel(0)
        /\ conv.pc = "unpadded" =>
              \A y \in 0 .. (height - 1) : \A x \in 0 .. (n_h - 1) :
                 conv.img[y][x] = [num |-> input[y][x].num, den |-> filter_length]

\* C20: in every stored kernel, r[x] is positive where j[x] = 0, is 0 where
\* j[x] is even and not 0, and is negative where j[x] is odd, for negative j
\* as well; and j[x] = 0 for exactly one x.
C20_KernelSignRule ==
    \A d \in Devs :
        rs_[d].set =>
            LET L == j_host_buffer[d].size
                j == [x \in 0 .. (L - 1) |-> j_host_buffer[d].writes[x + 1].j]
                r == rs_[d].r
            IN  /\ DOMAIN r = 0 .. (L - 1)
                /\ \A x \in 0 .. (L - 1) :
                      /\ r[x].den > 0
                      /\ j[x] = 0 => r[x].num > 0
                      /\ (j[x] # 0 /\ j[x] % 2 = 0) => r[x].num = 0
                      /\ j[x] % 2 = 1 => r[x].num < 0
                /\ Cardinality({x \in 0 .. (L - 1) : j[x] = 0}) = 1

\* C20 witness: a kernel of 16 entries, with negative odd, negative even and
\* positive j, is stored
C20_Witness ==
    \E d \in Devs :
        /\ rs_[d].set
        /\ j_host_buffer[d].size = 16
        /\ j_host_buffer[d].writes[1].j = -7

\* C21: after createK every element of the transformed filter has equal
\* real and imaginary components, both the non-negative magnitude
\* K = tau * sqrt(re^2 + im^2) of the element before; after applyFilter
\* every sample (a, b) with x < L/2 + 1 and y < height is (a * K, b * K),
\* the complex sample scaled by the real K, and every element outside that
\* range is as before.
C21_RealScaling ==
    LET n == filter_length \div 2 + 1
        K(x) == [c |-> kf.tau, s |-> square(kf.filter0[x].x) + square(kf.filter0[x].y)]
    IN  /\ kf.pc \in {"K", "applied"} =>
              \A x \in 0 .. (n - 1) :
                 /\ kf.filter[x].x = kf.filter[x].y
                 /\ kf.filter[x].x = K(x)
                 /\ kf.filter[x].x.c >= 0 /\ kf.filter[x].x.s >= 0
        /\ kf.pc = "applied" =>
              \A y \in DOMAIN kf.data : \A x \in DOMAIN kf.data[y] :
                 IF x < n /\ y < geo.det_pixels_column
                 THEN /\ kf.data[y][x].x = times(kf.data0[y][x].x, K(x))
                      /\ kf.data[y][x].y = times(kf.data0[y][x].y, K(x))
                 ELSE kf.data[y][x] = kf.data0[y][x]

\* C21 witness: a filter of 9 elements with a complex first element has
\* been applied to a projection of several rows
C21_Witness ==
    /\ kf.pc = "applied"
    /\ filter_length = 16
    /\ geo.det_pixels_column >= 5
    /\ kf.filter0[0] = complex(3, -4)
    /\ kf.data[1][1] # kf.data0[1][1]

\* the compute capabilities of the claim with their worker counts
Supported ==
    {<<2, mi, 16>> : mi \in 0 .. MaxMinor}
    \cup {<<3, 0, 16>>, <<3, 2, 4>>, <<3, 5, 32>>, <<3, 7, 32>>,
          <<5, 0, 32>>, <<5, 2, 32>>, <<5, 3, 16>>}

\* C22: a CUDAMaster is constructed only for the compute capabilities 2.x,
\* 3.0, 3.2, 3.5, 3.7, 5.0, 5.2 and 5.3, with the worker counts 16, 16, 4,
\* 32, 32, 32, 32 and 16; for every other capability whose properties were
\* read the constructor has thrown a runtime error that names the device,
\* and for the listed ones it has not; workerCount returns the count of the
\* table, never the initial value 1.
C22_WorkerCount ==
    LET listed == \E n \in {4, 16, 32} : <<master.major, master.minor, n>> \in Supported
    IN  /\ master.pc \in {"constructed", "asked"} =>
              <<master.major, master.minor, master.number_of_workers>> \in Supported
        /\ (master.pc = "threw" /\ master.what.text # "cudaGetDeviceProperties") =>
              /\ ~listed
              /\ master.what.device = master.device
              /\ master.what.major = master.major
              /\ master.what.minor = master.minor
        /\ master.pc = "asked" =>
              /\ master.returned # 1
              /\ <<master.major, master.minor, master.returned>> \in Supported

\* C22 witness: a device of compute capability 3.2 has answered 4, and in
\* another run a CUDAMaster for capability 3.1 has thrown
C22_Witness ==
    \/ master.pc = "asked" /\ master.major = 3 /\ master.minor = 2 /\ master.returned = 4
    \/ master.pc = "threw" /\ master.major = 3 /\ master.minor = 1

\* the metadata of a projection: all of it but the data handle
Metadata(p) == <<p.width, p.height, p.idx, p.phi, p.valid>>

\* C23: the k-th projection that the preloader has pushed, and the one it
\* holds ready to push, is valid, lives on the preloader's device and
\* carries the width, height, index and angle of the k-th projection
\* pulled; the sentinel it may push last has no metadata of a projection.
C23_MetadataForwarded ==
    \A d \in Devs :
        LET in == hist[d].pre_in
            out == hist[d].pre_out
            n == Len(ValidOnly(out))
        IN  /\ n <= Len(in)
            /\ \A k \in 1 .. Len(out) :
                  IF out[k].valid
                  THEN /\ k <= n
                       /\ Metadata(out[k]) = Metadata(in[k])
                       /\ out[k].task = in[k].task
                       /\ out[k].device = d /\ in[k].device = -1
                  ELSE out[k] = sentinel
            /\ prepc[d].pc = "push" =>
                  /\ Metadata(prepc[d].p) = Metadata(prepc[d].host)
                  /\ prepc[d].host = in[Len(in)]
                  /\ prepc[d].p.valid

\* C23 witness: the preloader has pushed two projections of different
\* angles, whose width differs from their height
C23_Witness ==
    LET out == hist[0].pre_out
    IN  /\ Len(out) >= 2
        /\ out[1].valid /\ out[2].valid
        /\ out[1].phi # out[2].phi
        /\ out[2].phi = hist[0].pre_in[2].phi
        /\ out[2].width # out[2].height

\* C24: the destructor of a preloader_stage raises nothing: it either ends
\* the process or lets launch_pipeline leave as it was leaving.  A destructor
\* whose cudaSetDevice failed has not released the pool and has ended the
\* process with the error code of cudaSetDevice; a destructor that released
\* the pool had the device set; and the step of a destructor changes nothing
\* else of the program.
C24_DestructorExitsOrReleases ==
    /\ [](\A d \in Devs :
            /\ pool[d].err # cudaSuccess =>
                  /\ ~pool[d].released
                  /\ ~Alive
                  /\ exitcode = pool[d].err
                  /\ exitcode # 0
            /\ pool[d].released => pool[d].err = cudaSuccess)
    /\ [][\A d \in Devs :
            /\ (pool'[d].err # pool[d].err) =>
                  /\ pipe' = pipe /\ caught' = caught
                  /\ pool'[d].released = pool[d].released
                  /\ pool'[d].out = pool[d].out
                  /\ mainpc' = "aborted"
            /\ (pool'[d].released /\ ~pool[d].released) =>
                  /\ pool'[d].err = cudaSuccess
                  /\ caught' = caught /\ mainpc' = mainpc /\ exitcode' = exitcode
                  /\ pipe'[d] = (IF pipe[d] = "construct" THEN "stage_construction_error"
                                 ELSE IF PipelineFailed(d) THEN "stage_runtime_error"
                                 ELSE "returned")
                  /\ \A e \in Devs \ {d} : pipe'[e] = pipe[e]]_vars

\* C24 witness: the destructor of a pipeline that reconstructed every task
\* could not set its device and has ended the process with the error code 54
C24_Witness ==
    \E d \in Devs :
        /\ pool[d].err = 54
        /\ ~pool[d].released
        /\ exitcode = 54
        /\ PipelineComplete(d)
        /\ Len(taken) = NumTasks

=============================================================================
